---- MODULE Spec2Model ----
(***************************************************************************)
(* Model of OER_corrections.py: the class Corrections (input validation,   *)
(* the three vibrational corrections, the printed report) and the script   *)
(* body under `if __name__ == "__main__"`.                                 *)
(*                                                                         *)
(* Numbers.  A Python float / numpy float64 is modelled by a decimal       *)
(* floating-point value: a record [k, v] where k is "fin", "nan", "pinf"   *)
(* or "ninf" and, for "fin", v counts steps of 1/Scale.  Every operation   *)
(* rounds its result to Mant significant steps (the mantissa) and to the   *)
(* grid 1/Scale (the smallest step, as the subnormal grid of binary64), so *)
(* that products may underflow to zero and sums are not associative, as in *)
(* binary64.  Energies are counted in meV and times in 1e-11 s so that the *)
(* constants fit the grid: h = 0.414 meV*(1e-11 s), c = 0.300 cm/(1e-11 s),*)
(* k_B = 0.086 meV/K.  An extra kind "ZeroDivisionError" stands for the    *)
(* exception Python raises when a Python float is divided by zero; it      *)
(* absorbs every later operation of the expression it occurs in.           *)
(***************************************************************************)
EXTENDS Integers, Sequences, FiniteSets, TLC

\* Steps per unit of the fixed grid (the smallest positive float is 1/Scale).
Scale == 1000
\* Mantissa limit: a finite value keeps at most this many significant steps.
Mant == 10000

Abs(n) == IF n < 0 THEN -n ELSE n
Sgn(n) == IF n < 0 THEN -1 ELSE IF n > 0 THEN 1 ELSE 0

\* a / b rounded to the nearest integer, halves away from zero (b > 0).
RoundDiv(a, b) == Sgn(a) * ((Abs(a) + b \div 2) \div b)

\* Rounding of an exact result to the mantissa.
RECURSIVE RoundSig(_)
RoundSig(n) == IF Abs(n) < Mant THEN n ELSE 10 * RoundSig(RoundDiv(n, 10))

\* a * b / Scale rounded to the grid, the larger factor split so that no
\* intermediate product leaves the integers TLC computes with.
MulScale(a, b) ==
    LET big == IF Abs(a) >= Abs(b) THEN Abs(a) ELSE Abs(b)
        small == IF Abs(a) >= Abs(b) THEN Abs(b) ELSE Abs(a)
    IN  Sgn(a) * Sgn(b)
          * ((big \div Scale) * small + RoundDiv((big % Scale) * small, Scale))

Fin(n) == [k |-> "fin", v |-> RoundSig(n)]
NaN == [k |-> "nan", v |-> 0]
PInf == [k |-> "pinf", v |-> 0]
NInf == [k |-> "ninf", v |-> 0]
ZDE == [k |-> "ZeroDivisionError", v |-> 0]

IsFin(a) == a.k = "fin"
IsInf(a) == a.k \in {"pinf", "ninf"}
\* Sign of a float that is not NaN.
FSgn(a) == IF a.k = "pinf" THEN 1 ELSE IF a.k = "ninf" THEN -1 ELSE Sgn(a.v)
InfOf(s) == IF s > 0 THEN PInf ELSE NInf

FNeg(a) ==
    IF a.k = "pinf" THEN NInf
    ELSE IF a.k = "ninf" THEN PInf
    ELSE IF a.k = "fin" THEN Fin(-a.v)
    ELSE a

\* float + float (IEEE 754: inf + -inf is NaN).
FAdd(a, b) ==
    IF a.k = "ZeroDivisionError" \/ b.k = "ZeroDivisionError" THEN ZDE
    ELSE IF a.k = "nan" \/ b.k = "nan" THEN NaN
    ELSE IF IsInf(a) /\ IsInf(b) THEN (IF a.k = b.k THEN a ELSE NaN)
    ELSE IF IsInf(a) THEN a
    ELSE IF IsInf(b) THEN b
    ELSE Fin(a.v + b.v)

FSub(a, b) == FAdd(a, FNeg(b))

\* float * float (IEEE 754: 0 * inf is NaN); the product is rounded to the grid.
FMul(a, b) ==
    IF a.k = "ZeroDivisionError" \/ b.k = "ZeroDivisionError" THEN ZDE
    ELSE IF a.k = "nan" \/ b.k = "nan" THEN NaN
    ELSE IF IsInf(a) \/ IsInf(b)
         THEN (IF FSgn(a) * FSgn(b) = 0 THEN NaN ELSE InfOf(FSgn(a) * FSgn(b)))
    ELSE Fin(MulScale(a.v, b.v))

\* numpy float64 division: x/0 is +-inf, 0/0 and inf/inf are NaN (a warning, no
\* exception).  Every zero divisor the program can form is +0.0.
NpDiv(a, b) ==
    IF a.k = "ZeroDivisionError" \/ b.k = "ZeroDivisionError" THEN ZDE
    ELSE IF a.k = "nan" \/ b.k = "nan" THEN NaN
    ELSE IF IsInf(a) /\ IsInf(b) THEN NaN
    ELSE IF IsInf(a) THEN InfOf(FSgn(a) * (IF FSgn(b) < 0 THEN -1 ELSE 1))
    ELSE IF IsInf(b) THEN Fin(0)
    ELSE IF b.v = 0 THEN (IF a.v = 0 THEN NaN ELSE InfOf(Sgn(a.v)))
    ELSE Fin(Sgn(b.v) * RoundDiv(a.v * Scale, Abs(b.v)))

\* Python float division: a zero divisor raises ZeroDivisionError.
PyDiv(a, b) ==
    IF a.k = "ZeroDivisionError" \/ b.k = "ZeroDivisionError" THEN ZDE
    ELSE IF IsFin(b) /\ b.v = 0 THEN ZDE
    ELSE NpDiv(a, b)

\* e^x for x >= 0 on the grid: the Taylor series, term n+1 = term n * x / (n+1).
RECURSIVE ExpSeries(_, _, _, _)
ExpSeries(x, n, term, acc) ==
    IF term = 0 THEN acc
    ELSE ExpSeries(x, n + 1, RoundDiv(term * x, (n + 1) * Scale), acc + term)

ExpPos(x) == ExpSeries(x, 0, Scale, 0)

\* numpy.exp
NpExp(a) ==
    IF a.k = "ZeroDivisionError" THEN ZDE
    ELSE IF a.k = "nan" THEN NaN
    ELSE IF a.k = "pinf" THEN PInf
    ELSE IF a.k = "ninf" THEN Fin(0)
    ELSE IF a.v >= 0 THEN Fin(ExpPos(a.v))
    ELSE Fin(RoundDiv(Scale * Scale, ExpPos(-a.v)))

\* ln y for Scale/2 <= y < 2*Scale: 2*(z + z^3/3 + z^5/5 + ...), z = (y-1)/(y+1).
RECURSIVE LnSeries(_, _, _, _)
LnSeries(z2, n, pow, acc) ==
    IF pow = 0 THEN acc
    ELSE LnSeries(z2, n + 2, RoundDiv(pow * z2, Scale), acc + RoundDiv(pow, n))

LnCore(y) ==
    LET z == RoundDiv((y - Scale) * Scale, y + Scale)
    IN  2 * LnSeries(RoundDiv(z * z, Scale), 1, z, 0)

Ln2 == -LnCore(Scale \div 2)

\* ln y for every y > 0 on the grid, by halving or doubling into LnCore's range.
RECURSIVE LnPos(_)
LnPos(y) ==
    IF y < Scale \div 2 THEN LnPos(2 * y) - Ln2
    ELSE IF y >= 2 * Scale THEN LnPos(y \div 2) + Ln2
    ELSE LnCore(y)

\* numpy.log: log(0) is -inf, log of a negative number is NaN.
NpLog(a) ==
    IF a.k = "ZeroDivisionError" THEN ZDE
    ELSE IF a.k = "nan" \/ a.k = "ninf" THEN NaN
    ELSE IF a.k = "pinf" THEN PInf
    ELSE IF a.v < 0 THEN NaN
    ELSE IF a.v = 0 THEN NInf
    ELSE Fin(LnPos(a.v))


(***************************************************************************)
(* Python values: t is the type isinstance sees, n an int's value, f a     *)
(* float's value, chars a str's code points, items a container's elements. *)
(***************************************************************************)
PyNone == [t |-> "NoneType", n |-> 0, f |-> Fin(0), chars |-> <<>>, items |-> <<>>]
PyStr(cs) == [PyNone EXCEPT !.t = "str", !.chars = cs]
PyInt(i) == [PyNone EXCEPT !.t = "int", !.n = i]
PyFloat(raw) == [PyNone EXCEPT !.t = "float", !.f = Fin(raw)]
PyList(seq) == [PyNone EXCEPT !.t = "list", !.items = seq]
PyTuple(seq) == [PyNone EXCEPT !.t = "tuple", !.items = seq]

\* Module constants (scipy's CODATA values on the model's grid, see the head).
boltzmann_constant == 86
planck_constant == 414
speed_of_light == 300
gas_constant_R == boltzmann_constant

One == Fin(Scale)
Half == Fin(Scale \div 2)

\* isinstance(adsorbate_name, str)
IsStr(v) == v.t = "str"
\* isinstance(frequencies, List)
IsList(v) == v.t = "list"
\* Mutant of IsFloat: isinstance(x, (int, float)).
IsFloat_orInt(v) == v.t \in {"float", "int"}

\* isinstance(x, float): an int is not a float, nothing is coerced
IsFloat(v) == v.t = "float"
\* len(x) of a str or of a container
PyLen(v) == IF v.t = "str" THEN Len(v.chars) ELSE Len(v.items)
\* temperature <= 0 on a float (False for NaN)
NonPositive(v) == (IsFin(v.f) /\ v.f.v <= 0) \/ v.f.k = "ninf"

\* numpy.sum of a list of floats, added in list order starting from 0.0
\* (numpy's float64 reduction is this plain loop for fewer than 8 elements).
RECURSIVE NpSum(_)
NpSum(seq) ==
    IF seq = <<>> THEN Fin(0)
    ELSE FAdd(NpSum(SubSeq(seq, 1, Len(seq) - 1)), seq[Len(seq)])

\* planck_constant*speed_of_light*freq, evaluated left to right
hc_times(freq) == FMul(FMul(Fin(planck_constant), Fin(speed_of_light)), freq)

\* Mutant of calculate_ZPE: the terms added from the last to the first.
calculate_ZPE_reversed(frequency_list) ==
    FMul(Half, NpSum([i \in 1..Len(frequency_list) |->
                         hc_times(frequency_list[Len(frequency_list) + 1 - i].f)]))

\* 0.5*np.sum([planck_constant*speed_of_light*freq for freq in frequency_list])
calculate_ZPE(frequency_list) ==
    FMul(Half, NpSum([i \in 1..Len(frequency_list) |-> hc_times(frequency_list[i].f)]))

\* lambda f: planck_constant*speed_of_light*f/(boltzmann_constant*temperature)
\* Python floats throughout: a zero divisor raises ZeroDivisionError.
hnu_over_kt(f, temperature) ==
    PyDiv(hc_times(f), FMul(Fin(boltzmann_constant), temperature))

\* One element of the list summed by calculate_Svib.
Svib_term(frequency, temperature) ==
    FSub(NpDiv(hc_times(frequency),
               FMul(FMul(Fin(boltzmann_constant), temperature),
                    FSub(NpExp(hnu_over_kt(frequency, temperature)), One))),
         NpLog(FSub(One, NpExp(FNeg(hnu_over_kt(frequency, temperature))))))

calculate_Svib(frequency_list, temperature) ==
    FMul(Fin(gas_constant_R),
         NpSum([i \in 1..Len(frequency_list) |->
                   Svib_term(frequency_list[i].f, temperature)]))

\* Mutant of deltaU_term: the Boltzmann constant missing from the divisor.
deltaU_term_noBoltzmann(frequency, temperature) ==
    NpDiv(hc_times(frequency), FSub(NpExp(hnu_over_kt(frequency, temperature)), One))

\* One element of the list summed by calculate_deltaU.
deltaU_term(frequency, temperature) ==
    NpDiv(hc_times(frequency),
          FMul(Fin(boltzmann_constant),
               FSub(NpExp(hnu_over_kt(frequency, temperature)), One)))

calculate_deltaU(frequency_list, temperature) ==
    FMul(Fin(gas_constant_R),
         NpSum([i \in 1..Len(frequency_list) |->
                   deltaU_term(frequency_list[i].f, temperature)]))

(***************************************************************************)
(* Inputs.                                                                 *)
(***************************************************************************)
\* Longest frequency list a direct caller passes.
MaxLen == 3
\* Most species in the configuration file.
MaxSpecimen == 2

\* Seq(S) up to length n.
SeqsUpTo(S, n) == UNION {[1..m -> S] : m \in 0..n}

\* 0.0, 10.0, 1000.0 and -1000.0 cm-1, the int 100 and the str "bad"
FreqElems ==
    {PyFloat(0), PyFloat(10 * Scale), PyFloat(1000 * Scale), PyFloat(-1000 * Scale),
     PyInt(100), PyStr(<<98, 97, 100>>)}
\* "", "O" and the int 42
NameValues == {PyStr(<<>>), PyStr(<<79>>), PyInt(42)}
\* 300.0, 0.0, -5.0 K, a positive float of three grid steps (so small that
\* boltzmann_constant*temperature underflows to 0.0, as it does in binary64 for
\* temperatures below 2.9e-320), the int 300 and the str "300"
TemperatureValues ==
    {PyFloat(300 * Scale), PyFloat(0), PyFloat(-5 * Scale), PyFloat(3),
     PyInt(300), PyStr(<<51, 48, 48>>)}
\* lists, a tuple and a bare float
FrequencyValues ==
    {PyList(q) : q \in SeqsUpTo(FreqElems, MaxLen)}
      \cup {PyTuple(<<PyFloat(100 * Scale)>>), PyFloat(100 * Scale)}

\* Arguments of a direct call Corrections(adsorbate_name, frequencies, temperature).
CallArgs ==
    [adsorbate_name : NameValues, frequencies : FrequencyValues,
     temperature : TemperatureValues]
NoArgs == [adsorbate_name |-> PyNone, frequencies |-> PyNone, temperature |-> PyNone]

\* data.toml as tomllib.load returns it: a float or int temperature and an array
\* of tables, each with a name and an array of frequencies.
ConfigSpecimen ==
    [name : {PyStr(<<79>>), PyStr(<<>>)},
     frequencies : {PyList(<<PyFloat(100 * Scale), PyFloat(1000 * Scale)>>),
                    PyList(<<PyInt(3657)>>),
                    PyList(<<PyFloat(0)>>)}]
Configs ==
    \* 300.0, the int 300, 0.0 and the float of three grid steps
    [temperature : {PyFloat(300 * Scale), PyInt(300), PyFloat(0), PyFloat(3)},
     specimen : SeqsUpTo(ConfigSpecimen, MaxSpecimen)]
NoData == [temperature |-> PyNone, specimen |-> <<>>]

(***************************************************************************)
(* State.                                                                  *)
(***************************************************************************)
VARIABLES
    runAs,       \* "__main__": run as a script; "module": imported, Corrections called
    fileExists,  \* whether open("data.toml") finds the file
    data,        \* what tomllib.load returned
    idx,         \* position of the loop of line 108 in data["specimen"] (0: none yet)
    args,        \* arguments of the call of Corrections in progress
    pc,          \* the line about to be executed ("done": the program has ended)
    j,           \* position of the loop of line 25 in frequencies
    self,        \* the attributes of the object under construction
    out,         \* standard output, one record per printed line
    exc,         \* the exception that ended the program, kind "none" if none
    log          \* history: what was executed, in order

vars == <<runAs, fileExists, data, idx, args, pc, j, self, out, exc, log>>

\* An object before line 33: no attribute set.
NewObject ==
    [attrs |-> {}, name |-> PyNone, frequencies |-> PyNone, temperature |-> PyNone,
     ZPE |-> Fin(0), S_vib |-> Fin(0), deltaU |-> Fin(0)]

NoException == [kind |-> "none", msg |-> "", elem |-> PyNone]
Exception(kind, msg, elem) == [kind |-> kind, msg |-> msg, elem |-> elem]

Line(text, name, vals) == [text |-> text, name |-> name, vals |-> vals]
Event(ev, n) == [ev |-> ev, sp |-> idx, n |-> n]

Init ==
    /\ runAs \in {"__main__", "module"}
    /\ IF runAs = "__main__"
       THEN /\ fileExists \in BOOLEAN
            /\ data \in (IF fileExists THEN Configs ELSE {NoData})
            /\ args = NoArgs
            /\ pc = "L98"
       ELSE /\ fileExists = FALSE
            /\ data = NoData
            /\ args \in CallArgs
            /\ pc = "L17"
    /\ idx = 0
    /\ j = 0
    /\ self = NewObject
    /\ out = <<>>
    /\ exc = NoException
    /\ log = <<>>

\* Mutant of RaiseTarget: the exception caught inside the loop, which goes on.
RaiseTarget_loop == "L108"

\* Where control goes when a statement of Corrections.__init__ raises: no handler
\* encloses the call (the try of line 98 covers only the open), so the program ends.
RaiseTarget == "done"

\* raise kind(msg)
Raise(kind, msg, elem) ==
    /\ exc' = Exception(kind, msg, elem)
    /\ pc' = RaiseTarget
    /\ log' = Append(log, Event("raise", 0))

\* The statement at line `at` completed; `ev` is logged and control moves to `to`.
Goto(ev, n, to) ==
    /\ pc' = to
    /\ log' = Append(log, Event(ev, n))
    /\ exc' = exc

(***************************************************************************)
(* Corrections.__init__, lines 17-41.                                      *)
(***************************************************************************)
\* 17-18  if not isinstance(adsorbate_name, str): raise TypeError
CheckNameType ==
    /\ pc = "L17"
    /\ IF ~IsStr(args.adsorbate_name)
       THEN Raise("TypeError", "The name of the adsorbed specimen must be a string.",
                  PyNone)
       ELSE Goto("check1", 0, "L19")
    /\ UNCHANGED <<runAs, fileExists, data, idx, args, j, self, out>>

\* Mutant of CheckNameLen: the length check forgotten.
CheckNameLen_skipped ==
    /\ pc = "L19"
    /\ Goto("check2", 0, "L21")
    /\ UNCHANGED <<runAs, fileExists, data, idx, args, j, self, out>>

\* 19-20  elif len(adsorbate_name) == 0: raise ValueError
CheckNameLen ==
    /\ pc = "L19"
    /\ IF PyLen(args.adsorbate_name) = 0
       THEN Raise("ValueError",
                  "The name of the adsorbate must contain at least one character.",
                  PyNone)
       ELSE Goto("check2", 0, "L21")
    /\ UNCHANGED <<runAs, fileExists, data, idx, args, j, self, out>>

\* 21-22  if not isinstance(frequencies, List): raise TypeError
CheckFreqType ==
    /\ pc = "L21"
    /\ IF ~IsList(args.frequencies)
       THEN Raise("TypeError", "Frequencies must be of type List.", PyNone)
       ELSE Goto("check3", 0, "L23")
    /\ UNCHANGED <<runAs, fileExists, data, idx, args, j, self, out>>

\* Mutant of LoopStart: the scan starts at the second element.
LoopStart_second == 1 + 1

\* 25  `for freq in frequencies` starts at the first element.
LoopStart == 1

\* 23-24  elif len(frequencies) == 0: raise ValueError; else enter the loop of 25
CheckFreqLen ==
    /\ pc = "L23"
    /\ IF PyLen(args.frequencies) = 0
       THEN /\ Raise("ValueError",
                     "The list of frequencies must contain at least one value.", PyNone)
            /\ j' = j
       ELSE /\ Goto("check4", 0, "L25")
            /\ j' = LoopStart
    /\ UNCHANGED <<runAs, fileExists, data, idx, args, self, out>>

\* 25-27  one turn of: for freq in frequencies: if not isinstance(freq, float): raise
CheckFreqElem ==
    /\ pc = "L25"
    /\ j <= PyLen(args.frequencies)
    /\ IF ~IsFloat(args.frequencies.items[j])
       THEN /\ exc' = Exception("TypeError",
                         "Frequencies must be floating point values. Invalid element: ",
                         args.frequencies.items[j])
            /\ pc' = RaiseTarget
            /\ log' = log \o <<Event("elem", j), Event("raise", 0)>>
            /\ j' = j
       ELSE /\ Goto("elem", j, "L25")
            /\ j' = j + 1
    /\ UNCHANGED <<runAs, fileExists, data, idx, args, self, out>>

\* 28-29  (the loop of 25 exhausted) if not isinstance(temperature, float): raise
CheckTempType ==
    /\ pc = "L25"
    /\ j > PyLen(args.frequencies)
    /\ IF ~IsFloat(args.temperature)
       THEN Raise("TypeError", "Temperature must be a floating point value.", PyNone)
       ELSE Goto("check6", 0, "L30")
    /\ UNCHANGED <<runAs, fileExists, data, idx, args, j, self, out>>

\* Mutant of CheckTempValue: the check placed after the assignments of 33-35.
CheckTempValue_afterAssign ==
    /\ pc = "L30"
    /\ IF NonPositive(args.temperature)
       THEN /\ Raise("ValueError", "Temperature must be a positive value.", PyNone)
            /\ self' = [self EXCEPT !.attrs = {"name", "frequencies", "temperature"},
                                    !.name = args.adsorbate_name,
                                    !.frequencies = args.frequencies,
                                    !.temperature = args.temperature]
       ELSE /\ Goto("check7", 0, "L33")
            /\ self' = self
    /\ UNCHANGED <<runAs, fileExists, data, idx, args, j, out>>

\* 30-31  elif temperature <= 0: raise ValueError
CheckTempValue ==
    /\ pc = "L30"
    /\ IF NonPositive(args.temperature)
       THEN Raise("ValueError", "Temperature must be a positive value.", PyNone)
       ELSE Goto("check7", 0, "L33")
    /\ UNCHANGED <<runAs, fileExists, data, idx, args, j, self, out>>

\* 33-35  self.name, self.frequencies, self.temperature
Assign ==
    /\ pc = "L33"
    /\ self' = [self EXCEPT !.attrs = @ \cup {"name", "frequencies", "temperature"},
                            !.name = args.adsorbate_name,
                            !.frequencies = args.frequencies,
                            !.temperature = args.temperature]
    /\ Goto("assign", 0, "L36")
    /\ UNCHANGED <<runAs, fileExists, data, idx, args, j, out>>

\* The attribute assignment `self.attr = value` of lines 36-38: a value that is the
\* ZeroDivisionError outcome is the exception leaving the call, nothing assigned.
SetCorrection(attr, value, to) ==
    IF value.k = "ZeroDivisionError"
    THEN /\ exc' = Exception("ZeroDivisionError", "float division by zero", PyNone)
         /\ pc' = RaiseTarget
         /\ log' = log \o <<Event("calculate_" \o attr, 0), Event("raise", 0)>>
         /\ self' = self
    ELSE /\ self' = [self EXCEPT !.attrs = @ \cup {attr}, ![attr] = value]
         /\ Goto("calculate_" \o attr, 0, to)

\* 36  self.ZPE = self.calculate_ZPE(self.frequencies)
CallZPE ==
    /\ pc = "L36"
    /\ SetCorrection("ZPE", calculate_ZPE(self.frequencies.items), "L37")
    /\ UNCHANGED <<runAs, fileExists, data, idx, args, j, out>>

\* 37  self.S_vib = self.calculate_Svib(self.frequencies, self.temperature)
CallSvib ==
    /\ pc = "L37"
    /\ SetCorrection("S_vib", calculate_Svib(self.frequencies.items, self.temperature.f),
                     "L38")
    /\ UNCHANGED <<runAs, fileExists, data, idx, args, j, out>>

\* 38  self.deltaU = self.calculate_deltaU(self.frequencies, self.temperature)
CallDeltaU ==
    /\ pc = "L38"
    /\ SetCorrection("deltaU",
                     calculate_deltaU(self.frequencies.items, self.temperature.f), "L39")
    /\ UNCHANGED <<runAs, fileExists, data, idx, args, j, out>>

\* The values formatted by line 40: ZPE, S_vib, T*S_vib, deltaU.
ReportValues(o) == <<o.ZPE, o.S_vib, FMul(o.temperature.f, o.S_vib), o.deltaU>>
\* Mutant of ReportTotal: the entropy term added instead of subtracted.
ReportTotal_plus(o) == FAdd(FAdd(o.ZPE, FMul(o.temperature.f, o.S_vib)), o.deltaU)

\* The value formatted by line 41: ZPE - T*S_vib + deltaU, left to right.
ReportTotal(o) == FAdd(FSub(o.ZPE, FMul(o.temperature.f, o.S_vib)), o.deltaU)

\* 39  print(f"Specimen: {self.name}")
PrintSpecimen ==
    /\ pc = "L39"
    /\ out' = Append(out, Line("Specimen: ", self.name.chars, <<>>))
    /\ Goto("print", 1, "L40")
    /\ UNCHANGED <<runAs, fileExists, data, idx, args, j, self>>

\* 40  print(f"ZPE: ... S_vib: ... T*S_vib: ... deltaU 0->T: ...")
PrintValues ==
    /\ pc = "L40"
    /\ out' = Append(out, Line("ZPE: S_vib: T*S_vib: deltaU 0->T: ", <<>>,
                               ReportValues(self)))
    /\ Goto("print", 2, "L41")
    /\ UNCHANGED <<runAs, fileExists, data, idx, args, j, self>>

\* 41  print(f"Total correction: ...") and return to the caller: the loop of line
\* 108 when run as a script, the importing program otherwise.
PrintTotal ==
    /\ pc = "L41"
    /\ out' = Append(out, Line("Total correction: ", <<>>, <<ReportTotal(self)>>))
    /\ Goto("print", 3, IF runAs = "__main__" THEN "L108" ELSE "done")
    /\ UNCHANGED <<runAs, fileExists, data, idx, args, j, self>>

(***************************************************************************)
(* The script, lines 97-109.                                               *)
(***************************************************************************)
\* 98-101, 107  open and load data.toml, print(data), temperature = data[...]
MainLoad ==
    /\ pc = "L98"
    /\ fileExists
    /\ out' = Append(out, Line("data", <<>>, <<>>))
    /\ Goto("load", 0, "L108")
    /\ UNCHANGED <<runAs, fileExists, data, idx, args, j, self>>

\* 103-105  except FileNotFoundError: print(...); raise
MainNotFound ==
    /\ pc = "L98"
    /\ ~fileExists
    /\ out' = Append(out, Line("The .toml configuration file was not found.", <<>>,
                               <<>>))
    /\ exc' = Exception("FileNotFoundError", "data.toml", PyNone)
    /\ pc' = "done"
    /\ log' = Append(log, Event("raise", 0))
    /\ UNCHANGED <<runAs, fileExists, data, idx, args, j, self>>

\* The arguments line 109 passes for the species at position i: the name, a new
\* list of the same elements, and the one temperature read at line 107.
CallOf(i) ==
    [adsorbate_name |-> data.specimen[i].name,
     frequencies |-> PyList([n \in 1..Len(data.specimen[i].frequencies.items) |->
                               data.specimen[i].frequencies.items[n]]),
     temperature |-> data.temperature]

\* 108-109  for i in data["specimen"]: Corrections(...)  (the next species)
MainCall ==
    /\ pc = "L108"
    /\ idx < Len(data.specimen)
    /\ idx' = idx + 1
    /\ args' = CallOf(idx + 1)
    /\ self' = NewObject
    /\ j' = 0
    /\ pc' = "L17"
    /\ log' = Append(log, [ev |-> "call", sp |-> idx + 1, n |-> 0])
    /\ UNCHANGED <<runAs, fileExists, data, out, exc>>

\* 108  the loop is exhausted: the script ends
MainExit ==
    /\ pc = "L108"
    /\ idx = Len(data.specimen)
    /\ Goto("exit", 0, "done")
    /\ UNCHANGED <<runAs, fileExists, data, idx, args, j, self, out>>

Next ==
    \/ CheckNameType
    \/ CheckNameLen
    \/ CheckFreqType
    \/ CheckFreqLen
    \/ CheckFreqElem
    \/ CheckTempType
    \/ CheckTempValue
    \/ Assign
    \/ CallZPE
    \/ CallSvib
    \/ CallDeltaU
    \/ PrintSpecimen
    \/ PrintValues
    \/ PrintTotal
    \/ MainLoad
    \/ MainNotFound
    \/ MainCall
    \/ MainExit

Spec == Init /\ [][Next]_vars

(***************************************************************************)
(* Properties.                                                             *)
(***************************************************************************)
\* A call of Corrections has been entered (its arguments are in args).
CallMade == runAs = "module" \/ idx > 0
\* The events of the call in progress (or of the last one).
CurLog == SelectSeq(log, LAMBDA e : e.sp = idx /\ e.ev # "load" /\ e.ev # "exit")
ValidationKinds == {"TypeError", "ValueError"}

\* The seven defects an argument triple may have, stated on the arguments alone,
\* numbered in the order the specification gives for the checks.
Defect(n, a) ==
    CASE n = 1 -> a.adsorbate_name.t # "str"
      [] n = 2 -> a.adsorbate_name.t = "str" /\ Len(a.adsorbate_name.chars) = 0
      [] n = 3 -> a.frequencies.t # "list"
      [] n = 4 -> a.frequencies.t = "list" /\ Len(a.frequencies.items) = 0
      [] n = 5 -> /\ a.frequencies.t = "list"
                  /\ \E i \in 1..Len(a.frequencies.items) :
                        a.frequencies.items[i].t # "float"
      [] n = 6 -> a.temperature.t # "float"
      [] n = 7 -> /\ a.temperature.t = "float"
                  /\ a.temperature.f.k = "fin"
                  /\ a.temperature.f.v <= 0
Defects(a) == {n \in 1..7 : Defect(n, a)}
Earliest(a) ==
    IF Defects(a) = {} THEN 0
    ELSE CHOOSE n \in Defects(a) : \A m \in Defects(a) : n <= m
MessageOf(n) ==
    CASE n = 1 -> "The name of the adsorbed specimen must be a string."
      [] n = 2 -> "The name of the adsorbate must contain at least one character."
      [] n = 3 -> "Frequencies must be of type List."
      [] n = 4 -> "The list of frequencies must contain at least one value."
      [] n = 5 -> "Frequencies must be floating point values. Invalid element: "
      [] n = 6 -> "Temperature must be a floating point value."
      [] n = 7 -> "Temperature must be a positive value."
      [] OTHER -> ""
\* The smallest index of an element that is not a float (0 if there is none).
FirstNonFloat(items) ==
    IF \A i \in 1..Len(items) : items[i].t = "float" THEN 0
    ELSE CHOOSE i \in 1..Len(items) :
            /\ items[i].t # "float"
            /\ \A m \in 1..(i - 1) : items[m].t = "float"

\* C1: with several defects in the arguments, the error raised is that of the
\* earliest failing check in the order name type, name length, container type,
\* container emptiness, element types, temperature type, temperature value; an
\* error of a later check is never reported while an earlier check fails, and a
\* call whose arguments have a defect ends with the earliest defect's error.
C1_EarliestCheckWins ==
    /\ (CallMade /\ exc.kind \in ValidationKinds)
          => (Earliest(args) # 0 /\ exc.msg = MessageOf(Earliest(args)))
    /\ (CallMade /\ pc = "done" /\ Defects(args) # {})
          => exc.msg = MessageOf(Earliest(args))

\* Three defects at once (empty name, a non-float element, a non-float
\* temperature) and the error raised is the empty name's.
C1_Witness ==
    /\ pc = "done"
    /\ Defects(args) = {2, 5, 6}
    /\ exc.kind = "ValueError"
    /\ exc.msg = MessageOf(2)

\* C2 (as claimed): a finished call failed with ValueError exactly when the
\* earliest defect is an empty name, an empty list or a temperature <= 0, with
\* TypeError exactly when it is a non-str name, a non-list container, a non-float
\* element or a non-float temperature; and a call whose arguments pass all seven
\* checks raises nothing at any point of its construction.
C2_ErrorKinds ==
    /\ (CallMade /\ pc = "done")
          => /\ exc.kind = "ValueError" <=> Earliest(args) \in {2, 4, 7}
             /\ exc.kind = "TypeError" <=> Earliest(args) \in {1, 3, 5, 6}
    /\ (CallMade /\ Defects(args) = {}) => exc.kind = "none"

\* C3: all or nothing.  When validation has failed, no calculate_* has run in
\* that call, the object has no attribute and the call has printed nothing;
\* when the call has printed a line, all seven checks passed (every element
\* examined) and the attributes and the three corrections were set before it.
C3_AllOrNothing ==
    /\ (CallMade /\ exc.kind \in ValidationKinds)
          => /\ self.attrs = {}
             /\ \A p \in 1..Len(CurLog) :
                   CurLog[p].ev \notin {"assign", "calculate_ZPE", "calculate_S_vib",
                                        "calculate_deltaU", "print"}
             /\ Len(out) = (IF runAs = "__main__" THEN 1 + 3 * (idx - 1) ELSE 0)
    /\ \A p \in 1..Len(CurLog) :
          CurLog[p].ev = "print"
             => /\ Defects(args) = {}
                /\ \A ev \in {"check1", "check2", "check3", "check4", "check6",
                              "check7", "assign", "calculate_ZPE", "calculate_S_vib",
                              "calculate_deltaU"} :
                      \E q \in 1..(p - 1) : CurLog[q].ev = ev
                /\ \A i \in 1..Len(args.frequencies.items) :
                      \E q \in 1..(p - 1) : CurLog[q].ev = "elem" /\ CurLog[q].n = i
                /\ self.attrs = {"name", "frequencies", "temperature", "ZPE", "S_vib",
                                 "deltaU"}

\* The script has printed the first species' report and the second species has
\* failed validation on an int frequency, its object still without attributes.
C3_Witness ==
    /\ runAs = "__main__"
    /\ idx = 2
    /\ exc.msg = MessageOf(5)
    /\ self.attrs = {}
    /\ Len(out) = 4

\* The state right after line 41 of a call.
ReportPrinted ==
    /\ Len(log) > 0
    /\ log[Len(log)].ev = "print"
    /\ log[Len(log)].n = 3

\* C4: in every printed report the total is ZPE - temperature*S_vib + deltaU
\* of the values stored on the object and the validated temperature, and the
\* T*S_vib shown on the line before is the very product subtracted in the total.
C4_TotalIdentity ==
    ReportPrinted =>
        LET values == out[Len(out) - 1].vals
            total == out[Len(out)].vals[1]
        IN  /\ self.temperature = args.temperature
            /\ values[1] = self.ZPE
            /\ values[2] = self.S_vib
            /\ values[4] = self.deltaU
            /\ values[3] = FMul(self.temperature.f, self.S_vib)
            /\ total = FAdd(FSub(self.ZPE, values[3]), self.deltaU)

\* A report with finite, non-zero T*S_vib and a total different from ZPE + deltaU.
C4_Witness ==
    /\ ReportPrinted
    /\ out[Len(out) - 1].vals[3].k = "fin"
    /\ out[Len(out) - 1].vals[3].v > 0
    /\ out[Len(out)].vals[1].k = "fin"
    /\ out[Len(out)].vals[1] # FAdd(self.ZPE, self.deltaU)

\* x_i = h*c*nu_i/(k_B*T) as the specification writes it.
XOf(nu, T) ==
    PyDiv(FMul(FMul(Fin(planck_constant), Fin(speed_of_light)), nu),
          FMul(Fin(boltzmann_constant), T))
\* Sum of term(i) for i = 1..n, added in the order 1, 2, ..., n.
RECURSIVE SumInOrder(_, _, _, _)
SumInOrder(term(_), i, n, acc) ==
    IF i > n THEN acc ELSE SumInOrder(term, i + 1, n, FAdd(acc, term(i)))

Examined ==
    LET ev == SelectSeq(CurLog, LAMBDA e : e.ev = "elem")
    IN  [p \in 1..Len(ev) |-> ev[p].n]

\* C7: the TypeError for a non-float element names the element of smallest
\* index that is not a float, and the elements examined are exactly those up to
\* it, in order; with a valid name, [100, "bad"] fails with TypeError.
C7_FirstOffender ==
    /\ (CallMade /\ exc.msg = MessageOf(5))
          => LET m == FirstNonFloat(args.frequencies.items)
             IN  /\ m > 0
                 /\ exc.kind = "TypeError"
                 /\ exc.elem = args.frequencies.items[m]
                 /\ Examined = [p \in 1..m |-> p]
    /\ ( /\ CallMade
         /\ pc = "done"
         /\ Defects(args) \cap {1, 2} = {}
         /\ args.frequencies = PyList(<<PyInt(100), PyStr(<<98, 97, 100>>)>>) )
          => (exc.kind = "TypeError" /\ exc.elem = PyInt(100))

\* [1000.0, "bad", 100]: the error names "bad", the third element is not examined.
C7_Witness ==
    /\ exc.msg = MessageOf(5)
    /\ args.frequencies
         = PyList(<<PyFloat(1000 * Scale), PyStr(<<98, 97, 100>>), PyInt(100)>>)
    /\ exc.elem = PyStr(<<98, 97, 100>>)
    /\ Examined = <<1, 2>>

\* C8 (as claimed): for a non-empty name, a positive float temperature and a
\* non-empty list of floats of any sign, the call raises nothing, and once
\* finished it has set the three corrections and printed its report.
C8_Lenient ==
    ( /\ CallMade
      /\ args.adsorbate_name.t = "str" /\ Len(args.adsorbate_name.chars) > 0
      /\ args.temperature.t = "float" /\ args.temperature.f.v > 0
      /\ args.frequencies.t = "list" /\ Len(args.frequencies.items) > 0
      /\ \A i \in 1..Len(args.frequencies.items) :
            args.frequencies.items[i].t = "float" )
       => /\ exc.kind = "none"
          /\ pc = "done" => /\ {"ZPE", "S_vib", "deltaU"} \subseteq self.attrs
                            /\ ReportPrinted \/ runAs = "__main__"

\* The report lines of out (those of line 39), in order.
SpecimenLines == SelectSeq(out, LAMBDA l : l.text = "Specimen: ")

\* C9: the script handles the species in configuration order, one at a time,
\* all with the one temperature of the file: a species is called only right
\* after the previous one's third report line, and when species k fails
\* validation the program ends there, with the complete reports of species
\* 1..k-1 on the output and nothing of a later species validated or printed.
C9_InOrder ==
    runAs = "__main__" =>
        /\ \A p \in 1..Len(log) : log[p].sp <= idx
        /\ \A p \in 1..Len(log), q \in 1..Len(log) : p < q => log[p].sp <= log[q].sp
        /\ \A p \in 1..Len(log) :
              log[p].ev = "call"
                 => /\ Cardinality({q \in 1..p : log[q].ev = "call"}) = log[p].sp
                    /\ log[p].sp > 1
                          => log[p - 1] = [ev |-> "print", sp |-> log[p].sp - 1, n |-> 3]
        /\ idx > 0
              => /\ args.temperature = data.temperature
                 /\ args.adsorbate_name = data.specimen[idx].name
                 /\ args.frequencies = data.specimen[idx].frequencies
        /\ \A k \in 1..Len(SpecimenLines) :
              SpecimenLines[k].name = data.specimen[k].name.chars
        /\ (idx > 0 /\ exc.kind \in ValidationKinds)
              => /\ pc = "done"
                 /\ log[Len(log)] = [ev |-> "raise", sp |-> idx, n |-> 0]
                 /\ Len(out) = 1 + 3 * (idx - 1)
                 /\ Len(SpecimenLines) = idx - 1

\* Of two species the first is reported in full and the second fails validation
\* on its empty name: the program has ended with the first report on the output.
C9_Witness ==
    /\ runAs = "__main__"
    /\ idx = 2
    /\ Len(data.specimen) = 2
    /\ exc.msg = MessageOf(2)
    /\ Len(SpecimenLines) = 1
    /\ pc = "done"

\* C10: nothing turns an int into a float on the way from the configuration to
\* the checks: the call receives the configuration's values as they are; an int
\* temperature, or an int element, that is the earliest defect ends the call
\* with TypeError; and a configuration with an int temperature prints no
\* report at all, its first species failing.
C10_NoCoercion ==
    /\ (runAs = "__main__" /\ idx > 0)
          => /\ args.temperature = data.temperature
             /\ args.frequencies.items = data.specimen[idx].frequencies.items
    /\ (CallMade /\ pc = "done" /\ args.temperature.t = "int" /\ Earliest(args) = 6)
          => (exc.kind = "TypeError" /\ exc.msg = MessageOf(6))
    /\ ( /\ CallMade
         /\ pc = "done"
         /\ Earliest(args) = 5
         /\ args.frequencies.items[FirstNonFloat(args.frequencies.items)].t = "int" )
          => (exc.kind = "TypeError" /\ exc.msg = MessageOf(5))
    /\ (runAs = "__main__" /\ data.temperature.t = "int")
          => /\ SpecimenLines = <<>>
             /\ idx <= 1
             /\ (pc = "done" /\ Len(data.specimen) > 0)
                   => (idx = 1 /\ exc.kind \in ValidationKinds)

\* A configuration of two well-formed species and the temperature 300 (an int):
\* the first species has failed with the temperature's TypeError.
C10_Witness ==
    /\ runAs = "__main__"
    /\ data.temperature = PyInt(300)
    /\ Len(data.specimen) = 2
    /\ pc = "done"
    /\ idx = 1
    /\ exc.msg = MessageOf(6)
    /\ Len(out) = 1

====
